---- MODULE Spec2Model ----
(***************************************************************************)
(* Model of gsil/engine.py: the Engine class (search, process_pages,       *)
(* codes, _keywords, _exclude_repository, _exclude_codes).                 *)
(*                                                                         *)
(* Text is modelled as a sequence of one-character strings, so that        *)
(* str.replace, str.splitlines, str.split, str.strip and the `in`          *)
(* substring test are computed character by character as Python does.      *)
(***************************************************************************)
EXTENDS Integers, Sequences, FiniteSets, TLC

VARIABLES
    \* ---- Engine fields (engine.py 50-64) and the position inside search()
    pc,               \* where search() is
    rule_object,      \* self.rule_object
    hash_list,        \* self.hash_list
    processed_count,  \* self.processed_count
    next_count,       \* self.next_count
    result,           \* self.result
    exclude_result,   \* self.exclude_result
    total,            \* local `total` of search()
    pages,            \* local `pages` of search()
    page,             \* loop variable of `for page in range(pages)`
    pages_content,    \* number of hits of the page returned by get_page
    index,            \* loop variable of `for index, content in enumerate(...)`
    ret,              \* value returned by search()
    \* ---- observation of the collaborators' calls
    fetched,          \* page indices handed to resource.get_page, in order
    fetch_outcome,    \* outcome of each get_page call, in order
    reported,         \* pages Process(result, rule).process() was called for
    report_arg,       \* the map handed to the last Process(...).process()
    last,             \* what the last loop iteration of process_pages did
    evaluated,        \* hits evaluated since the rule started
    added,            \* entries written to result / exclude_result
    matched,          \* evaluated hits whose match_codes was non-empty
    dealt,            \* hits handed out by get_page since the rule started
    dedups,           \* hits skipped as already processed over one rule
    confirmed,        \* entries written to result since the rule started
    \* ---- classifier harness: codes() applied to a text under construction
    c_pc,             \* "build" while the text grows, "done" after codes()
    c_lines,          \* lines the input text is joined from
    c_rule,           \* rule the classifier runs with
    c_code,           \* self.code after codes()
    c_windows,        \* the windows codes() emitted (trigger, line indices)
    c_match,          \* match_codes returned by codes()
    \* ---- query harness: the search keyword built from a rule
    q_pc,             \* "build" while the rule's extension grows, then "done"
    q_keyword,        \* rule_object.keyword
    q_has_ext,        \* rule_object.extension is not None
    q_ext,            \* rule_object.extension
    q_query,          \* the keyword string handed to search_code
    \* ---- mail harness: _mail() run over the addresses found in a text
    m_pc,             \* "loop" inside `for mm in mail_multi`, then "done"
    m_multi,          \* mail_multi, the addresses re.findall returned
    m_i,              \* how many elements of mail_multi the loop has taken
    m_mails,          \* local `mails`
    m_match,          \* local `match_codes`
    m_probes          \* the requests.get calls made, in order

engine_vars == <<pc, rule_object, hash_list, processed_count, next_count,
                 result, exclude_result, total, pages, page, pages_content,
                 index, ret, fetched, fetch_outcome, reported, report_arg,
                 last, evaluated, added, matched, dealt, dedups, confirmed>>
codes_vars == <<c_pc, c_lines, c_rule, c_code, c_windows, c_match>>
query_vars == <<q_pc, q_keyword, q_has_ext, q_ext, q_query>>
mail_vars == <<m_pc, m_multi, m_i, m_mails, m_match, m_probes>>
vars == <<engine_vars, codes_vars, query_vars, mail_vars>>

(***************************************************************************)
(* Bounds of the model                                                     *)
(***************************************************************************)
MaxPageLen == 5      \* hits in one page returned by get_page
MaxHits == 5         \* hits handed out by get_page over one rule
MaxFound == 1        \* hits that produce a ScanResult over one rule
MaxTimeouts == 1     \* get_page calls that time out over one rule
MaxLines == 5        \* lines of a text given to the classifier harness
MaxExtLen == 9       \* characters of a rule's extension text
MaxMails == 3        \* addresses found in a text given to the mail harness

(***************************************************************************)
(* Program constants                                                       *)
(***************************************************************************)
per_page == 50
default_pages == 4
AbortThreshold == 3
ContextLines == 3
DefaultLines == 20

(***************************************************************************)
(* Python string primitives                                                *)
(***************************************************************************)
Whitespace == {" ", "\t", "\n", "\r"}
LineBreaks == {"\n", "\r"}

StartsWith(s, p) == Len(s) >= Len(p) /\ SubSeq(s, 1, Len(p)) = p

\* `sub in s` for strings
Contains(sub, s) ==
    \E i \in 0..(Len(s) - Len(sub)) : SubSeq(s, i + 1, i + Len(sub)) = sub

\* s.replace(p, '') for a non-empty p: leftmost non-overlapping occurrences
RECURSIVE RemoveAll(_, _)
RemoveAll(s, p) ==
    IF s = <<>> THEN <<>>
    ELSE IF StartsWith(s, p)
         THEN RemoveAll(SubSeq(s, Len(p) + 1, Len(s)), p)
         ELSE <<Head(s)>> \o RemoveAll(Tail(s), p)

\* s.splitlines(): no trailing empty line, "\r\n" is one break
RECURSIVE SplitLinesAcc(_, _)
SplitLinesAcc(s, cur) ==
    IF s = <<>> THEN (IF cur = <<>> THEN <<>> ELSE <<cur>>)
    ELSE IF Head(s) = "\r" /\ Len(s) >= 2 /\ s[2] = "\n"
         THEN <<cur>> \o SplitLinesAcc(SubSeq(s, 3, Len(s)), <<>>)
    ELSE IF Head(s) \in LineBreaks
         THEN <<cur>> \o SplitLinesAcc(Tail(s), <<>>)
    ELSE SplitLinesAcc(Tail(s), Append(cur, Head(s)))

SplitLines(s) == SplitLinesAcc(s, <<>>)

\* s.split(' '): always at least one piece, empty pieces are kept
RECURSIVE SplitSpaceAcc(_, _)
SplitSpaceAcc(s, cur) ==
    IF s = <<>> THEN <<cur>>
    ELSE IF Head(s) = " "
         THEN <<cur>> \o SplitSpaceAcc(Tail(s), <<>>)
         ELSE SplitSpaceAcc(Tail(s), Append(cur, Head(s)))

SplitSpace(s) == SplitSpaceAcc(s, <<>>)

\* s.strip() == ''
IsBlank(s) == \A i \in 1..Len(s) : s[i] \in Whitespace

\* '\n'.join(ls)
RECURSIVE JoinLines(_)
JoinLines(ls) ==
    IF ls = <<>> THEN <<>>
    ELSE IF Len(ls) = 1 THEN ls[1]
    ELSE ls[1] \o <<"\n">> \o JoinLines(Tail(ls))

RECURSIVE Flatten(_)
Flatten(ss) == IF ss = <<>> THEN <<>> ELSE Head(ss) \o Flatten(Tail(ss))

Quote == <<"\"">>
ImgTag == <<"<", "i", "m", "g">>

(***************************************************************************)
(* Engine._keywords (engine.py 305-318)                                    *)
(***************************************************************************)
Keywords(keyword) ==
    IF ~Contains(Quote, keyword) /\ Contains(<<" ">>, keyword)
    THEN SplitSpace(keyword)
    ELSE IF Contains(Quote, keyword)
         THEN <<RemoveAll(keyword, Quote)>>
         ELSE <<keyword>>

(***************************************************************************)
(* Engine.codes (engine.py 244-303).  Line indices are 0-based as in the   *)
(* source; codes[i] of the source is cs[i + 1] here.                       *)
(***************************************************************************)
\* self.code = self.code.replace('<img', '')
StripImg(code) == RemoveAll(code, ImgTag)

\* ContextLoop without the blank-line test of engine.py 279 and 295
RECURSIVE ContextLoopKeepBlank(_, _, _, _)
ContextLoopKeepBlank(cs, i, hi, idxs) ==
    IF i >= hi THEN idxs
    ELSE IF \/ \E j \in 1..Len(idxs) : idxs[j] = i
            \/ i < 0
            \/ i >= Len(cs)
         THEN ContextLoopKeepBlank(cs, i + 1, hi, idxs)
         ELSE ContextLoopKeepBlank(cs, i + 1, hi, Append(idxs, i))

\* one pass of `for i in range(lo, hi)` over the context of trigger idx:
\* skips indices in idxs, out of range, or blank; appends the others
RECURSIVE ContextLoop(_, _, _, _)
ContextLoop(cs, i, hi, idxs) ==
    IF i >= hi THEN idxs
    ELSE IF \/ \E j \in 1..Len(idxs) : idxs[j] = i
            \/ i < 0
            \/ i >= Len(cs)
            \/ IsBlank(cs[i + 1])
         THEN ContextLoop(cs, i + 1, hi, idxs)
         ELSE ContextLoop(cs, i + 1, hi, Append(idxs, i))

\* the body of `if keyword in code:` for trigger line idx, started with the
\* list idxs0: the indices appended to match_codes, in order
WindowFrom(cs, idx, idxs0) ==
    LET before == ContextLoop(cs, idx - ContextLines, idx, idxs0)
        cur == IF \E j \in 1..Len(before) : before[j] = idx
               THEN <<>> ELSE <<idx>>
        after == ContextLoop(cs, idx + 1, idx + ContextLines + 1, before)
    IN  SubSeq(before, Len(idxs0) + 1, Len(before)) \o cur
            \o SubSeq(after, Len(before) + 1, Len(after))

\* idxs = [] at the start of every trigger (engine.py 271)
Window(cs, idx) == WindowFrom(cs, idx, <<>>)

\* the (line, keyword) pairs with `keyword in code`, in loop order
RECURSIVE Triggers(_, _, _, _)
Triggers(cs, kws, idx, k) ==
    IF idx >= Len(cs) THEN <<>>
    ELSE IF k > Len(kws) THEN Triggers(cs, kws, idx + 1, 1)
    ELSE IF Contains(kws[k], cs[idx + 1])
         THEN <<idx>> \o Triggers(cs, kws, idx, k + 1)
         ELSE Triggers(cs, kws, idx, k + 1)

\* normal-match: one window per trigger
NormalWindows(cs, kws) ==
    LET ts == Triggers(cs, kws, 0, 1)
    IN  [n \in 1..Len(ts) |-> [trigger |-> ts[n], idxs |-> Window(cs, ts[n])]]

\* OnlyWindows with `break` after the first keyword found in a line
OnlyWindowsOncePerLine(cs, kws) ==
    LET ls == {i \in 0..(Len(cs) - 1) :
                  \E k \in 1..Len(kws) : Contains(kws[k], cs[i + 1])}
        nth[n \in 0..Len(cs)] ==
            IF n = 0 THEN -1
            ELSE CHOOSE i \in ls \cup {Len(cs)} :
                    /\ i > nth[n - 1]
                    /\ \A j \in ls : j > nth[n - 1] => i <= j
    IN  [n \in 1..Cardinality(ls) |-> [trigger |-> nth[n], idxs |-> <<nth[n]>>]]

\* only-match: the matching line itself, once per (line, keyword)
OnlyWindows(cs, kws) ==
    LET ts == Triggers(cs, kws, 0, 1)
    IN  [n \in 1..Len(ts) |-> [trigger |-> ts[n], idxs |-> <<ts[n]>>]]

\* default: the first 20 lines
DefaultWindows(cs) ==
    IF cs = <<>> THEN <<>>
    ELSE LET n == IF Len(cs) < DefaultLines THEN Len(cs) ELSE DefaultLines
         IN  <<[trigger |-> 0, idxs |-> [j \in 1..n |-> j - 1]]>>

\* the windows of the line-based modes; a rule of mode 'mail' returns
\* _mail() instead (engine.py 257-258), which MailIter models
CodesWindows(code, rule) ==
    LET cs == SplitLines(StripImg(code))
        kws == Keywords(rule.keyword)
    IN  IF rule.mode = "only-match" THEN OnlyWindows(cs, kws)
        ELSE IF rule.mode = "normal-match" THEN NormalWindows(cs, kws)
        ELSE DefaultWindows(cs)

\* the line indices appended to match_codes, in order
EmittedIdxs(ws) == Flatten([n \in 1..Len(ws) |-> ws[n].idxs])

\* match_codes returned by codes()
Codes(code, rule) ==
    LET cs == SplitLines(StripImg(code))
        em == EmittedIdxs(CodesWindows(code, rule))
    IN  [j \in 1..Len(em) |-> cs[em[j] + 1]]

(***************************************************************************)
(* Configuration imported from gsil.config (engine.py 21): the regex banks  *)
(* are literal patterns here, re.search is the substring test.             *)
(***************************************************************************)
exclude_repository_rules == {<<"i", "o">>}
exclude_codes_rules == {<<"u">>}

\* str.lower() on ASCII text
UpperLetters ==
    <<"A", "B", "C", "D", "E", "F", "G", "H", "I", "J", "K", "L", "M",
      "N", "O", "P", "Q", "R", "S", "T", "U", "V", "W", "X", "Y", "Z">>
LowerLetters ==
    <<"a", "b", "c", "d", "e", "f", "g", "h", "i", "j", "k", "l", "m",
      "n", "o", "p", "q", "r", "s", "t", "u", "v", "w", "x", "y", "z">>
LowerChar(c) ==
    IF \E i \in 1..Len(UpperLetters) : UpperLetters[i] = c
    THEN LowerLetters[CHOOSE i \in 1..Len(UpperLetters) : UpperLetters[i] = c]
    ELSE c
Lower(s) == [i \in 1..Len(s) |-> LowerChar(s[i])]

\* str.strip()
RECURSIVE LStrip(_)
LStrip(s) == IF s # <<>> /\ Head(s) \in Whitespace THEN LStrip(Tail(s)) ELSE s
RECURSIVE RStrip(_)
RStrip(s) == IF s # <<>> /\ s[Len(s)] \in Whitespace
             THEN RStrip(SubSeq(s, 1, Len(s) - 1)) ELSE s
Strip(s) == RStrip(LStrip(s))

\* Engine._exclude_repository (engine.py 383-394)
ExcludeRepository(full_name, path) ==
    LET full_path == Lower(full_name) \o <<"/">> \o Lower(path)
    IN  \E err \in exclude_repository_rules : Contains(err, full_path)

\* Engine._exclude_codes (engine.py 396-407)
ExcludeCodes(codes) ==
    \E ecr \in exclude_codes_rules : Contains(ecr, JoinLines(codes))

(***************************************************************************)
(* Engine._mail (engine.py 320-381)                                        *)
(***************************************************************************)
\* gsil.config, imported at engine.py 21
public_mail_services == { <<"q", "q", ".", "c", "o", "m">> }

Digits == <<"0", "1", "2", "3", "4", "5", "6", "7", "8", "9">>
IsDigit(c) == \E i \in 1..Len(Digits) : Digits[i] = c
DigitVal(c) == (CHOOSE i \in 1..Len(Digits) : Digits[i] = c) - 1
IsLetter(c) ==
    \E i \in 1..Len(UpperLetters) : UpperLetters[i] = c \/ LowerLetters[i] = c

\* the character classes of regex_mail and regex_host (engine.py 28-29)
LocalChars(c) == IsLetter(c) \/ IsDigit(c) \/ c \in {"_", ".", "+", "-"}
LabelChars(c) == IsLetter(c) \/ IsDigit(c) \/ c = "-"
TailChars(c) == LabelChars(c) \/ c = "."

\* [a-zA-Z0-9-]+\.[a-zA-Z0-9-.]+ matches the whole of h
IsHostMatch(h) ==
    \E d \in 2..(Len(h) - 1) :
        /\ h[d] = "."
        /\ \A i \in 1..(d - 1) : LabelChars(h[i])
        /\ \A i \in (d + 1)..Len(h) : TailChars(h[i])

\* regex_mail (engine.py 28) matches the whole of s
IsMailMatch(s) ==
    \E at \in 2..Len(s) :
        /\ s[at] = "@"
        /\ \A i \in 1..(at - 1) : LocalChars(s[i])
        /\ IsHostMatch(SubSeq(s, at + 1, Len(s)))

\* re.findall(regex_host, mail)[0] for a mail regex_mail matched
\* (engine.py 336-337): the text behind the '@'
HostOf(mail) ==
    LET at == CHOOSE i \in 1..Len(mail) : mail[i] = "@"
    IN  SubSeq(mail, at + 1, Len(mail))

\* s.split('.')
RECURSIVE SplitDotAcc(_, _)
SplitDotAcc(s, cur) ==
    IF s = <<>> THEN <<cur>>
    ELSE IF Head(s) = "."
         THEN <<cur>> \o SplitDotAcc(Tail(s), <<>>)
         ELSE SplitDotAcc(Tail(s), Append(cur, Head(s)))

SplitDot(s) == SplitDotAcc(s, <<>>)

\* one octet of regex_ip (engine.py 32):
\* [0-9]|[1-9][0-9]|1[0-9]{2}|2[0-4][0-9]|25[0-5]
IsOctet(t) ==
    /\ \A i \in 1..Len(t) : IsDigit(t[i])
    /\ \/ Len(t) = 1
       \/ Len(t) = 2 /\ t[1] # "0"
       \/ Len(t) = 3 /\ t[1] = "1"
       \/ Len(t) = 3 /\ t[1] = "2" /\ DigitVal(t[2]) <= 4
       \/ Len(t) = 3 /\ t[1] = "2" /\ t[2] = "5" /\ DigitVal(t[3]) <= 5

\* re.match(regex_ip, host) is not None (engine.py 345)
IsIp(host) ==
    LET ps == SplitDot(host)
    IN  Len(ps) = 4 /\ \A i \in 1..4 : IsOctet(ps[i])

RECURSIVE OctetVal(_)
OctetVal(t) ==
    IF t = <<>> THEN 0
    ELSE 10 * OctetVal(SubSeq(t, 1, Len(t) - 1)) + DigitVal(t[Len(t)])

\* IP(host).iptype() of IPy for a dotted quad (engine.py 358)
IpType(host) ==
    LET ps == SplitDot(host)
        a == OctetVal(ps[1])
        b == OctetVal(ps[2])
    IN  IF \/ a = 10
           \/ a = 172 /\ b \in 16..31
           \/ a = 192 /\ b = 168
        THEN "PRIVATE"
        ELSE IF a = 127 THEN "LOOPBACK" ELSE "PUBLIC"

\* IsInnerIp with no host taken for an inner one
IsInnerIpNever(host) == FALSE

\* is_inner_ip (engine.py 344-359)
IsInnerIp(host) == IsIp(host) /\ IpType(host) = "PRIVATE"

\* the text behind the last '.' of the host
LastLabel(host) == LET ps == SplitDot(host) IN ps[Len(ps)]

\* top_domain (engine.py 346-350): get_tld raises, returns the host itself
\* (the host is a registered suffix) or returns the suffix of the host
TldOutcomes == {"raise", "whole", "suffix"}
TopDomain(host, tld) == IF tld = "suffix" THEN LastLabel(host) ELSE host

Http == <<"h", "t", "t", "p", ":", "/", "/">>
Www == <<"w", "w", "w", ".">>

\* domain (engine.py 345-360)
Domain(host, tld) ==
    IF ~IsIp(host)
    THEN IF TopDomain(host, tld) = host THEN Http \o Www \o host
         ELSE Http \o host
    ELSE Http \o host

TitleLimit == 150
InnerIpTitle == <<"<", "I", "n", "n", "e", "r", " ", "I", "P", ">">>
UnknownTitle == <<"<", "U", "n", "k", "n", "o", "w", "n", ">">>
ExceptionTitle == <<"E", "x", "c", "e", "p", "t", "i", "o", "n">>
ErrorText == <<"e">>
PageTitle == <<" ", "T", " ">>

\* title after the probe (engine.py 361-376): requests.get raises, the page
\* has a title, has none, or its title cannot be read
ProbeOutcomes == {"raise", "title", "no_title", "bad_title"}
ProbeTitle(probe) ==
    CASE probe = "raise" -> <<"<">> \o ErrorText \o <<">">>
      [] probe = "title" ->
            LET t == Strip(PageTitle)
            IN  SubSeq(t, 1, IF Len(t) < TitleLimit THEN Len(t) ELSE TitleLimit)
      [] probe = "no_title" -> UnknownTitle
      [] OTHER -> ExceptionTitle

\* `x in xs` for a list
InSeq(x, xs) == \E i \in 1..Len(xs) : xs[i] = x

(***************************************************************************)
(* Inputs of the engine: rules, hash lists, totals and search hits         *)
(***************************************************************************)
None == "None"

EngineRules ==
    { [keyword |-> <<"k">>, mode |-> "normal-match"] }

HashLists == { {"a"}, {"", "a"} }

Totals == { per_page - 1, per_page }

CodeHit == <<"x", "\n", "k">>
CodeMiss == <<"x">>
CodeUseless == <<"k", "<", "i", "m", "g", "u">>

MkHit(sha_ok, sha, full_name, decode_ok, content) ==
    [sha_ok |-> sha_ok, sha |-> sha, html_url |-> "url",
     full_name |-> full_name, path |-> <<"f">>,
     decode_ok |-> decode_ok, content |-> content]

\* a search hit (github ContentFile): sha_ok = FALSE when reading content.sha
\* raises, decode_ok = FALSE when decoded_content.decode('utf-8') raises
Hits ==
    { MkHit(TRUE, "a", <<"r">>, TRUE, CodeHit),
      MkHit(TRUE, "b", <<"r">>, TRUE, CodeHit),
      MkHit(FALSE, "b", <<"r">>, TRUE, CodeMiss),
      MkHit(TRUE, "b", <<" ", "I", "O">>, TRUE, CodeHit),
      MkHit(TRUE, "b", <<"r">>, FALSE, CodeHit),
      MkHit(TRUE, "b", <<"r">>, TRUE, CodeMiss),
      MkHit(TRUE, "b", <<"r">>, TRUE, CodeUseless) }

(***************************************************************************)
(* Engine.process_pages (engine.py 66-145), one loop iteration             *)
(***************************************************************************)
\* ShouldAbort with the threshold off by one
ShouldAbortLate(nc, pcnt) == nc = 0 /\ pcnt > AbortThreshold + 1

\* ShouldAbort firing at the threshold itself
ShouldAbortAtThreshold(nc, pcnt) == nc = 0 /\ pcnt >= AbortThreshold

\* engine.py 79
ShouldAbort(nc, pcnt) == nc = 0 /\ pcnt > AbortThreshold

\* engine.py 88-93
HitSha(h) == IF h.sha_ok THEN h.sha ELSE ""
HitUrl(h) == IF h.sha_ok THEN h.html_url ELSE ""

\* IsProcessed without the hash list lookup
IsProcessedNever(sha, hl) == FALSE

\* engine.py 96
IsProcessed(sha, hl) == sha \in hl

\* engine.py 75
CurrentI(p, i) == p * per_page + i

\* engine.py 124-131; self.code is what codes() left in it (engine.py 250)
ScanResult(h, rule) ==
    [url |-> HitUrl(h), match_codes |-> Codes(h.content, rule),
     hash |-> HitSha(h), code |-> StripImg(h.content),
     repository |-> Strip(h.full_name), path |-> h.path]

\* which branch of the loop body the hit takes (engine.py 96-137)
Outcome(h, hl, rule) ==
    IF IsProcessed(HitSha(h), hl) THEN "dedup"
    ELSE IF ExcludeRepository(Strip(h.full_name), h.path) THEN "repo_excluded"
    ELSE IF ~h.decode_ok THEN "decode_failed"
    ELSE IF Len(Codes(h.content, rule)) = 0 THEN "no_match"
    ELSE IF ExcludeCodes(Codes(h.content, rule)) THEN "to_review"
    ELSE "confirmed"

\* the collaborator calls one iteration makes, by branch
CallsOf(o) ==
    CASE o = "dedup" -> {"sha"}
      [] o = "repo_excluded" -> {"sha", "exclude_repository"}
      [] o = "decode_failed" -> {"sha", "exclude_repository", "decoded_content"}
      [] o = "no_match" ->
            {"sha", "exclude_repository", "decoded_content", "codes"}
      [] OTHER ->
            {"sha", "exclude_repository", "decoded_content", "codes",
             "exclude_codes", "clone"}

Put(map, k, v) == [x \in DOMAIN map \cup {k} |-> IF x = k THEN v ELSE map[x]]
EmptyMap == [x \in {} |-> None]

\* dict entries written by one iteration (engine.py 133-137)
ResultAfter(res, o, k, rec) == IF o = "confirmed" THEN Put(res, k, rec) ELSE res
ExcludeAfterBoth(exc, o, k, rec) ==
    IF o \in {"to_review", "confirmed"} THEN Put(exc, k, rec) ELSE exc
ExcludeAfter(exc, o, k, rec) == IF o = "to_review" THEN Put(exc, k, rec) ELSE exc

\* ProcessedAfter counting the repository-path skips as well
ProcessedAfterAnySkip(n, o) ==
    IF o \in {"dedup", "repo_excluded"} THEN n + 1 ELSE n

\* ProcessedAfter counting consecutive dedup skips only
ProcessedAfterStreak(n, o) == IF o = "dedup" THEN n + 1 ELSE 0

\* engine.py 98
ProcessedAfter(n, o) == IF o = "dedup" THEN n + 1 ELSE n

\* NextAfter counting the confirmed results only
NextAfterConfirmed(n, o) == IF o = "confirmed" THEN n + 1 ELSE n

\* engine.py 143
NextAfter(n, o) == IF o \in {"confirmed", "to_review"} THEN n + 1 ELSE n

\* HashListAfter recording the sha of every stored entry
HashListAfterStore(hl, o, sha) ==
    IF o \in {"confirmed", "to_review"} THEN hl \cup {sha} ELSE hl

\* engine.py 96-143 never write self.hash_list
HashListAfter(hl, o, sha) == hl

\* the decoded text an iteration read, None when it read none (engine.py 111)
ContentRead(h, o) ==
    IF o \in {"dedup", "repo_excluded", "decode_failed"} THEN <<None>>
    ELSE h.content

NoStep ==
    [kind |-> "none", sha |-> "", sha_ok |-> TRUE, content |-> <<None>>,
     key |-> -1, calls |-> {}]

\* engine.py 79-82: `return False`, then `break` in search() (232-234)
Abort ==
    /\ pc = "process"
    /\ index < pages_content
    /\ ShouldAbort(next_count, processed_count)
    /\ pc' = "exit"
    /\ last' = [kind |-> "abort", sha |-> "", sha_ok |-> TRUE,
                content |-> <<None>>, key |-> CurrentI(page, index),
                calls |-> {}]
    /\ UNCHANGED <<rule_object, hash_list, processed_count, next_count, result,
                   exclude_result, total, pages, page, pages_content, index,
                   ret, fetched, fetch_outcome, reported, report_arg,
                   evaluated, added, matched, dealt, dedups,
                   confirmed>>
    /\ UNCHANGED <<codes_vars, query_vars, mail_vars>>

\* engine.py 84-143: the loop body for the hit at `index`
EvalHit(h) ==
    /\ pc = "process"
    /\ index < pages_content
    /\ ~ShouldAbort(next_count, processed_count)
    /\ LET o == Outcome(h, hash_list, rule_object)
           k == CurrentI(page, index)
           rec == ScanResult(h, rule_object)
       IN  /\ o \in {"confirmed", "to_review"} => added < MaxFound
           /\ result' = ResultAfter(result, o, k, rec)
           /\ exclude_result' = ExcludeAfter(exclude_result, o, k, rec)
           /\ processed_count' = ProcessedAfter(processed_count, o)
           /\ next_count' = NextAfter(next_count, o)
           /\ hash_list' = HashListAfter(hash_list, o, HitSha(h))
           /\ last' = [kind |-> o, sha |-> HitSha(h), sha_ok |-> h.sha_ok,
                       content |-> ContentRead(h, o), key |-> k,
                       calls |-> CallsOf(o)]
           /\ dedups' = IF o = "dedup" THEN dedups + 1 ELSE dedups
           /\ confirmed' = confirmed
                               + Cardinality(DOMAIN result' \ DOMAIN result)
           /\ added' = added + Cardinality(DOMAIN result' \ DOMAIN result)
                             + Cardinality(DOMAIN exclude_result'
                                               \ DOMAIN exclude_result)
           /\ matched' = IF /\ o \notin {"dedup", "repo_excluded",
                                           "decode_failed"}
                            /\ Len(Codes(h.content, rule_object)) > 0
                         THEN matched + 1 ELSE matched
    /\ index' = index + 1
    /\ evaluated' = evaluated + 1
    /\ UNCHANGED <<pc, rule_object, total, pages, page, pages_content, ret,
                   fetched, fetch_outcome, reported, report_arg, dealt>>
    /\ UNCHANGED <<codes_vars, query_vars, mail_vars>>

(***************************************************************************)
(* Engine.search (engine.py 158-242)                                       *)
(***************************************************************************)
\* s.split(','): always at least one piece, empty pieces are kept
RECURSIVE SplitCommaAcc(_, _)
SplitCommaAcc(s, cur) ==
    IF s = <<>> THEN <<cur>>
    ELSE IF Head(s) = ","
         THEN <<cur>> \o SplitCommaAcc(Tail(s), <<>>)
         ELSE SplitCommaAcc(Tail(s), Append(cur, Head(s)))

SplitComma(s) == SplitCommaAcc(s, <<>>)

ExtensionTag == <<"e", "x", "t", "e", "n", "s", "i", "o", "n", ":">>

\* ExtQuery without the strip() of engine.py 180
RECURSIVE ExtQueryNoStrip(_)
ExtQueryNoStrip(exts) ==
    IF exts = <<>> THEN <<>>
    ELSE ExtensionTag \o Lower(Head(exts)) \o <<" ">>
             \o ExtQueryNoStrip(Tail(exts))

\* engine.py 179-180: ext_query += f'extension:{ext.strip().lower()} '
RECURSIVE ExtQuery(_)
ExtQuery(exts) ==
    IF exts = <<>> THEN <<>>
    ELSE ExtensionTag \o Lower(Strip(Head(exts))) \o <<" ">>
             \o ExtQuery(Tail(exts))

\* engine.py 177-181: keyword = f'{self.rule_object.keyword} {ext_query}'
SearchKeyword(keyword, has_ext, ext) ==
    LET ext_query == IF has_ext THEN ExtQuery(SplitComma(ext)) ELSE <<>>
    IN  keyword \o <<" ">> \o ext_query

Failure(msg) == [ok |-> FALSE, rule |-> rule_object, info |-> msg]
Success(n) == [ok |-> TRUE, rule |-> rule_object, info |-> n]

\* engine.py 164-188: counters reset, rate limit read, search issued.
\* Only GithubException is caught; a socket.timeout leaves search() raised.
SearchCode(outcome) ==
    /\ pc = "start"
    /\ processed_count' = 0
    /\ next_count' = 0
    /\ CASE outcome = "ok" -> pc' = "count" /\ ret' = ret
         [] outcome = "GithubException" ->
                pc' = "done" /\ ret' = Failure("search_code exception")
         [] outcome = "timeout" -> pc' = "raised" /\ ret' = ret
    /\ UNCHANGED <<rule_object, hash_list, result, exclude_result, total,
                   pages, page, pages_content, index, fetched, fetch_outcome,
                   reported, report_arg, last, evaluated, added, matched,
                   dealt, dedups,
                   confirmed>>
    /\ UNCHANGED <<codes_vars, query_vars, mail_vars>>

\* PageCount with `<=` for `<`
PageCountLe(t) == IF t <= per_page THEN 1 ELSE default_pages

\* engine.py 211-214
PageCount(t) == IF t < per_page THEN 1 ELSE default_pages

\* engine.py 196-214: total count read, hash list loaded, page count computed
TotalCount(outcome, t, hl) ==
    /\ pc = "count"
    /\ CASE outcome = "ok" ->
                /\ total' = t
                /\ hash_list' = hl
                /\ pages' = PageCount(t)
                /\ page' = 0
                /\ pc' = "fetch"
                /\ ret' = ret
         [] outcome = "timeout" ->
                /\ pc' = "done"
                /\ ret' = Failure("timeout")
                /\ UNCHANGED <<total, hash_list, pages, page>>
         [] outcome = "GithubException" ->
                /\ pc' = "done"
                /\ ret' = Failure("search_code exception")
                /\ UNCHANGED <<total, hash_list, pages, page>>
    /\ UNCHANGED <<rule_object, processed_count, next_count, result,
                   exclude_result, pages_content, index, fetched,
                   fetch_outcome, reported, report_arg, last, evaluated,
                   added, matched, dealt, dedups,
                   confirmed>>
    /\ UNCHANGED <<codes_vars, query_vars, mail_vars>>

\* get_page calls that ended in socket.timeout so far
Timeouts(outcomes) ==
    Cardinality({i \in 1..Len(outcomes) : outcomes[i] = "timeout"})

\* GetPage with the socket.timeout of get_page handled like a GithubException
GetPageTimeoutFatal(outcome, n) ==
    /\ pc = "fetch"
    /\ page < pages
    /\ result' = EmptyMap
    /\ exclude_result' = EmptyMap
    /\ fetched' = Append(fetched, page)
    /\ fetch_outcome' = Append(fetch_outcome, outcome)
    /\ last' = NoStep
    /\ CASE outcome = "ok" ->
                /\ n <= MaxHits - dealt
                /\ pages_content' = n
                /\ dealt' = dealt + n
                /\ index' = 0
                /\ pc' = "process"
                /\ UNCHANGED <<page, ret>>
         [] outcome = "timeout" ->
                /\ n = 0
                /\ Timeouts(fetch_outcome) < MaxTimeouts
                /\ pc' = "done"
                /\ ret' = Failure("get_page exception")
                /\ UNCHANGED <<page, pages_content, dealt, index>>
         [] outcome = "GithubException" ->
                /\ n = 0
                /\ pc' = "done"
                /\ ret' = Failure("get_page exception")
                /\ UNCHANGED <<page, pages_content, dealt, index>>
    /\ UNCHANGED <<rule_object, hash_list, processed_count, next_count, total,
                   pages, reported, report_arg, evaluated, added, matched,
                   dedups,
                   confirmed>>
    /\ UNCHANGED <<codes_vars, query_vars, mail_vars>>

\* engine.py 217-231: maps reset, get_page(page) called; n is the number of
\* hits of the page
GetPage(outcome, n) ==
    /\ pc = "fetch"
    /\ page < pages
    /\ result' = EmptyMap
    /\ exclude_result' = EmptyMap
    /\ fetched' = Append(fetched, page)
    /\ fetch_outcome' = Append(fetch_outcome, outcome)
    /\ last' = NoStep
    /\ CASE outcome = "ok" ->
                /\ n <= MaxHits - dealt
                /\ pages_content' = n
                /\ dealt' = dealt + n
                /\ index' = 0
                /\ pc' = "process"
                /\ UNCHANGED <<page, ret>>
         [] outcome = "timeout" ->
                /\ n = 0
                /\ Timeouts(fetch_outcome) < MaxTimeouts
                /\ page' = page + 1
                /\ UNCHANGED <<pc, pages_content, dealt, index, ret>>
         [] outcome = "GithubException" ->
                /\ n = 0
                /\ pc' = "done"
                /\ ret' = Failure("get_page exception")
                /\ UNCHANGED <<page, pages_content, dealt, index>>
    /\ UNCHANGED <<rule_object, hash_list, processed_count, next_count, total,
                   pages, reported, report_arg, evaluated, added, matched,
                   dedups,
                   confirmed>>
    /\ UNCHANGED <<codes_vars, query_vars, mail_vars>>

\* EndPage without the Process(...).process() call
EndPageNoReport ==
    /\ pc = "process"
    /\ index = pages_content
    /\ UNCHANGED <<reported, report_arg>>
    /\ page' = page + 1
    /\ pc' = "fetch"
    /\ UNCHANGED <<rule_object, hash_list, processed_count, next_count, result,
                   exclude_result, total, pages, pages_content, index, ret,
                   fetched, fetch_outcome, last, evaluated, added, matched,
                   dealt, dedups,
                   confirmed>>
    /\ UNCHANGED <<codes_vars, query_vars, mail_vars>>

\* engine.py 145, 232-236: process_pages returned True, the page is reported
EndPage ==
    /\ pc = "process"
    /\ index = pages_content
    /\ reported' = Append(reported, page)
    /\ report_arg' = result
    /\ page' = page + 1
    /\ pc' = "fetch"
    /\ UNCHANGED <<rule_object, hash_list, processed_count, next_count, result,
                   exclude_result, total, pages, pages_content, index, ret,
                   fetched, fetch_outcome, last, evaluated, added, matched,
                   dealt, dedups,
                   confirmed>>
    /\ UNCHANGED <<codes_vars, query_vars, mail_vars>>

\* Summary counting the to-review entries as well
SummaryBoth(res, exc) ==
    Cardinality(DOMAIN res) + Cardinality(DOMAIN exc)

\* engine.py 242: len(self.result)
Summary(res, exc) == Cardinality(DOMAIN res)

\* engine.py 240-242: the loop is over (exhausted or left by break)
Return ==
    /\ \/ pc = "exit"
       \/ pc = "fetch" /\ page = pages
    /\ pc' = "done"
    /\ ret' = Success(Summary(result, exclude_result))
    /\ UNCHANGED <<rule_object, hash_list, processed_count, next_count, result,
                   exclude_result, total, pages, page, pages_content, index,
                   fetched, fetch_outcome, reported, report_arg, last,
                   evaluated, added, matched, dealt, dedups,
                   confirmed>>
    /\ UNCHANGED <<codes_vars, query_vars, mail_vars>>

ApiOutcomes == {"ok", "timeout", "GithubException"}

\* Engine.__init__ (engine.py 45-64) and the rule search() is called with
EngineInit ==
    /\ pc = "start"
    /\ rule_object \in EngineRules
    /\ hash_list = None
    /\ processed_count = None
    /\ next_count = None
    /\ result = None
    /\ exclude_result = None
    /\ total = None
    /\ pages = None
    /\ page = None
    /\ pages_content = 0
    /\ index = 0
    /\ ret = None
    /\ fetched = <<>>
    /\ fetch_outcome = <<>>
    /\ reported = <<>>
    /\ report_arg = None
    /\ last = NoStep
    /\ evaluated = 0
    /\ added = 0
    /\ matched = 0
    /\ dealt = 0
    /\ dedups = 0
    /\ confirmed = 0

CodesIdle ==
    /\ c_pc = "idle"
    /\ c_lines = <<>>
    /\ c_rule = None
    /\ c_code = None
    /\ c_windows = <<>>
    /\ c_match = <<>>

QueryIdle ==
    /\ q_pc = "idle"
    /\ q_keyword = <<>>
    /\ q_has_ext = FALSE
    /\ q_ext = <<>>
    /\ q_query = <<>>

MailIdle ==
    /\ m_pc = "idle"
    /\ m_multi = <<>>
    /\ m_i = 0
    /\ m_mails = <<>>
    /\ m_match = <<>>
    /\ m_probes = <<>>

Init == EngineInit /\ CodesIdle /\ QueryIdle /\ MailIdle

Next ==
    \/ \E o \in ApiOutcomes : SearchCode(o)
    \/ \E o \in ApiOutcomes, t \in Totals, hl \in HashLists : TotalCount(o, t, hl)
    \/ \E o \in ApiOutcomes, n \in 0..MaxPageLen : GetPage(o, n)
    \/ Abort
    \/ \E h \in Hits : EvalHit(h)
    \/ EndPage
    \/ Return

Spec == Init /\ [][Next]_vars

(***************************************************************************)
(* Classifier harness: codes() (engine.py 244-303) applied to texts joined *)
(* from up to MaxLines lines of LineSet, under the rules of ClassifyRules. *)
(***************************************************************************)
PwKeyword == <<"p", "a", "s", "s", "w", "o", "r", "d">>
PwLine == <<"d", "b", "_", "p", "a", "s", "s", "w", "o", "r", "d", "=",
            "1", "2", "3">>

LineSet ==
    { <<>>, <<" ">>, <<"k">>, <<"x", " ", "y">>,
      <<"<", "i", "m", "g", "k">>, PwLine }

ClassifyRules ==
    { [keyword |-> <<"k">>, mode |-> "normal-match"],
      [keyword |-> <<"x", " ", "y">>, mode |-> "normal-match"],
      [keyword |-> <<"k">>, mode |-> "only-match"],
      [keyword |-> <<"x", " ", "y">>, mode |-> "only-match"],
      [keyword |-> <<"\"", "x", " ", "y", "\"">>, mode |-> "only-match"],
      [keyword |-> PwKeyword, mode |-> "only-match"] }

InitCodes ==
    /\ EngineInit
    /\ QueryIdle
    /\ MailIdle
    /\ c_pc = "build"
    /\ c_lines = <<>>
    /\ c_rule \in ClassifyRules
    /\ c_code = None
    /\ c_windows = <<>>
    /\ c_match = <<>>

\* one more line of input text
AddLine(l) ==
    /\ c_pc = "build"
    /\ Len(c_lines) < MaxLines
    /\ c_lines' = Append(c_lines, l)
    /\ UNCHANGED <<c_pc, c_rule, c_code, c_windows, c_match>>
    /\ UNCHANGED <<engine_vars, query_vars, mail_vars>>

\* match_codes = self.codes() with self.code = '\n'.join(c_lines)
Classify ==
    /\ c_pc = "build"
    /\ c_pc' = "done"
    /\ c_code' = StripImg(JoinLines(c_lines))
    /\ c_windows' = CodesWindows(JoinLines(c_lines), c_rule)
    /\ c_match' = Codes(JoinLines(c_lines), c_rule)
    /\ UNCHANGED <<c_lines, c_rule>>
    /\ UNCHANGED <<engine_vars, query_vars, mail_vars>>

NextCodes ==
    \/ \E l \in LineSet : AddLine(l)
    \/ Classify

SpecCodes == InitCodes /\ [][NextCodes]_vars

(***************************************************************************)
(* Query harness: the search keyword of engine.py 177-181 built for rules  *)
(* whose extension is None or a text of up to MaxExtLen characters joined  *)
(* from the pieces of ExtChunks.                                           *)
(***************************************************************************)
Secret == <<"s", "e", "c", "r", "e", "t">>
QueryKeywords == { Secret, <<"k">> }
ExtChunks ==
    { <<"y", "m", "l">>, <<"Y", "m", "L">>, <<"j", "s", "o", "n">>, <<",">>,
      <<" ">> }

InitQuery ==
    /\ EngineInit
    /\ CodesIdle
    /\ MailIdle
    /\ q_pc = "build"
    /\ q_keyword \in QueryKeywords
    /\ q_has_ext \in BOOLEAN
    /\ q_ext = <<>>
    /\ q_query = <<>>

\* one more piece of the rule's extension text
AddChunk(c) ==
    /\ q_pc = "build"
    /\ q_has_ext
    /\ Len(q_ext) + Len(c) <= MaxExtLen
    /\ q_ext' = q_ext \o c
    /\ UNCHANGED <<q_pc, q_keyword, q_has_ext, q_query>>
    /\ UNCHANGED <<engine_vars, codes_vars, mail_vars>>

\* search() builds the keyword for the rule
BuildQuery ==
    /\ q_pc = "build"
    /\ q_pc' = "done"
    /\ q_query' = SearchKeyword(q_keyword, q_has_ext, q_ext)
    /\ UNCHANGED <<q_keyword, q_has_ext, q_ext>>
    /\ UNCHANGED <<engine_vars, codes_vars, mail_vars>>

NextQuery ==
    \/ \E c \in ExtChunks : AddChunk(c)
    \/ BuildQuery

SpecQuery == InitQuery /\ [][NextQuery]_vars

(***************************************************************************)
(* Mail harness: _mail() (engine.py 320-381) run over up to MaxMails       *)
(* addresses that regex_mail found in a text.                              *)
(***************************************************************************)
MailTexts ==
    { <<"A", "@", "1", "0", ".", "0", ".", "0", ".", "1">>,
      <<"b", "@", "8", ".", "8", ".", "8", ".", "8">>,
      <<"c", "@", "x", ".", "i", "o">>,
      <<"d", "@", "q", "q", ".", "c", "o", "m">>,
      <<"e", "@", "1", "0", ".", "0", ".", "0", ".", "1", ".">> }

\* what re.findall(regex_mail, self.code) can return (engine.py 329)
MailAddresses == {a \in MailTexts : IsMailMatch(a)}

InitMail ==
    /\ EngineInit
    /\ CodesIdle
    /\ QueryIdle
    /\ m_pc = "loop"
    /\ m_multi \in UNION {[1..n -> MailAddresses] : n \in 0..MaxMails}
    /\ m_i = 0
    /\ m_mails = <<>>
    /\ m_match = <<>>
    /\ m_probes = <<>>

\* one iteration of `for mm in mail_multi` (engine.py 330-380)
MailIter(tld, probe) ==
    /\ m_pc = "loop"
    /\ m_i < Len(m_multi)
    /\ LET mail == Lower(Strip(m_multi[m_i + 1]))
           host == Strip(HostOf(mail))
           domain == Domain(host, tld)
           title == IF IsInnerIp(host) THEN InnerIpTitle ELSE ProbeTitle(probe)
       IN  IF InSeq(mail, m_mails) \/ host \in public_mail_services
           THEN UNCHANGED <<m_mails, m_match, m_probes>>
           ELSE /\ m_mails' = Append(m_mails, mail)
                /\ m_probes' =
                       IF IsInnerIp(host) THEN m_probes
                       ELSE Append(m_probes, [mail |-> mail, url |-> domain])
                /\ m_match' =
                       Append(m_match,
                              mail \o <<" ">> \o domain \o <<" ">> \o title)
    /\ m_i' = m_i + 1
    /\ UNCHANGED <<m_pc, m_multi>>
    /\ UNCHANGED <<engine_vars, codes_vars, query_vars>>

\* engine.py 381: return match_codes
MailReturn ==
    /\ m_pc = "loop"
    /\ m_i = Len(m_multi)
    /\ m_pc' = "done"
    /\ UNCHANGED <<m_multi, m_i, m_mails, m_match, m_probes>>
    /\ UNCHANGED <<engine_vars, codes_vars, query_vars>>

NextMail ==
    \/ \E tld \in TldOutcomes, probe \in ProbeOutcomes : MailIter(tld, probe)
    \/ MailReturn

SpecMail == InitMail /\ [][NextMail]_vars

(***************************************************************************)
(* Properties of codes()                                                   *)
(***************************************************************************)
\* the lines codes() works on: self.code.splitlines() after line 250
CLinesOf == SplitLines(c_code)

NoRepeat(seq) == \A i, j \in 1..Len(seq) : i # j => seq[i] # seq[j]

\* C3: in normal-match mode every line index is emitted at most once in the
\* fragment sequence of one hit, also when several windows cover it.
C3_EachIndexOnce ==
    (c_pc = "done" /\ c_rule.mode = "normal-match")
        => NoRepeat(EmittedIdxs(c_windows))

\* the n nearest non-blank lines before (dir = -1) or after (dir = 1) line t
RECURSIVE Nearest(_, _, _, _)
Nearest(cs, i, dir, n) ==
    IF n = 0 \/ i < 0 \/ i >= Len(cs) THEN {}
    ELSE IF IsBlank(cs[i + 1]) THEN Nearest(cs, i + dir, dir, n)
    ELSE {i} \cup Nearest(cs, i + dir, dir, n - 1)

SeqRange(seq) == {seq[i] : i \in 1..Len(seq)}

\* C4: in normal-match mode blank lines do not consume the 3-line budget:
\* the window of trigger t holds the 3 nearest non-blank lines before t and
\* the 3 nearest non-blank lines after t, when they exist.
C4_BlankLinesFree ==
    (c_pc = "done" /\ c_rule.mode = "normal-match") =>
        \A n \in 1..Len(c_windows) :
            LET w == c_windows[n]
            IN  (Nearest(CLinesOf, w.trigger - 1, -1, ContextLines)
                    \cup Nearest(CLinesOf, w.trigger + 1, 1, ContextLines))
                    \subseteq SeqRange(w.idxs)

\* the physical neighbourhood of trigger t: t itself and the non-blank lines
\* among the 3 lines before and the 3 lines after it
Physical(cs, t) ==
    {j \in (t - ContextLines)..(t + ContextLines) :
        /\ j >= 0
        /\ j < Len(cs)
        /\ (j = t \/ ~IsBlank(cs[j + 1]))}

Ascending(seq) == \A i \in 1..(Len(seq) - 1) : seq[i] < seq[i + 1]

\* C4 as amended: the window of trigger t is, in ascending order, t and the
\* non-blank lines among the 3 physical lines before and after t; a blank
\* line uses up its place, so nothing further than 3 lines from t is emitted.
C4_PhysicalWindow ==
    (c_pc = "done" /\ c_rule.mode = "normal-match") =>
        \A n \in 1..Len(c_windows) :
            LET w == c_windows[n]
            IN  /\ SeqRange(w.idxs) = Physical(CLinesOf, w.trigger)
                /\ Ascending(w.idxs)

\* a window whose 3 lines before the trigger include a blank one, with a
\* non-blank line further up that is left out
C4_Witness ==
    /\ c_pc = "done"
    /\ c_rule.mode = "normal-match"
    /\ \E n \in 1..Len(c_windows) :
          LET w == c_windows[n]
          IN  /\ w.trigger > ContextLines
              /\ \E j \in (w.trigger - ContextLines)..(w.trigger - 1) :
                    IsBlank(CLinesOf[j + 1])
              /\ ~IsBlank(CLinesOf[w.trigger - ContextLines])
              /\ (w.trigger - ContextLines - 1) \notin SeqRange(w.idxs)

RECURSIVE Repeat(_, _)
Repeat(x, n) == IF n = 0 THEN <<>> ELSE <<x>> \o Repeat(x, n - 1)

\* every line, once per keyword position it contains
OncePerKeyword(cs, kws) ==
    Flatten([i \in 1..Len(cs) |->
        Repeat(cs[i],
               Cardinality({k \in 1..Len(kws) : Contains(kws[k], cs[i])}))])

\* C5: in only-match mode codes() returns exactly the lines that contain a
\* resolved keyword, in line order, once per resolved keyword contained;
\* keyword "password" on the one line "db_password=123" gives that line.
C5_OnlyMatch ==
    (c_pc = "done" /\ c_rule.mode = "only-match") =>
        /\ c_match = OncePerKeyword(CLinesOf, Keywords(c_rule.keyword))
        /\ (c_rule.keyword = PwKeyword /\ c_lines = <<PwLine>>)
               => c_match = <<PwLine>>

\* a line holding both keywords of "x y" was emitted twice
C5_Witness ==
    /\ c_pc = "done"
    /\ c_rule = [keyword |-> <<"x", " ", "y">>, mode |-> "only-match"]
    /\ c_lines = <<<<"k">>, <<"x", " ", "y">>, PwLine>>
    /\ c_match = <<<<"x", " ", "y">>, <<"x", " ", "y">>>>

(***************************************************************************)
(* Properties of search() and process_pages()                              *)
(***************************************************************************)
\* result and exclude_result are dicts once the page loop has been entered
InLoop == fetched # <<>>

LastOf(seq) == seq[Len(seq)]

\* one loop iteration of process_pages evaluated a hit
HitEvaluated == evaluated' = evaluated + 1

C1_Stored ==
    InLoop =>
        /\ \A k \in DOMAIN result : result[k].hash \notin hash_list
        /\ \A k \in DOMAIN exclude_result :
              exclude_result[k].hash \notin hash_list

C1_Step ==
    (HitEvaluated /\ last'.sha \in hash_list) =>
        /\ last'.kind = "dedup"
        /\ processed_count' = processed_count + 1
        /\ next_count' = next_count
        /\ result' = result
        /\ exclude_result' = exclude_result
        /\ last'.calls \cap {"decoded_content", "codes", "exclude_codes",
                             "clone"} = {}

\* C1: a hit whose sha is in the loaded hash set is never stored in result
\* or exclude_result; when evaluated it is skipped with processed_count + 1,
\* next_count unchanged and no content retrieval, classification or clone.
C1_DedupSkip == [](C1_Stored) /\ [][C1_Step]_vars

\* a hit was skipped as already processed
C1_Witness ==
    /\ pc = "process"
    /\ last.kind = "dedup"
    /\ last.sha \in hash_list
    /\ processed_count = 2

C2_AbortStep ==
    (pc = "process" /\ index < pages_content
        /\ next_count = 0 /\ processed_count > 3) =>
        /\ pc' = "exit"
        /\ evaluated' = evaluated
        /\ fetched' = fetched

C2_AfterAbort ==
    pc \in {"exit", "done"} =>
        /\ pc' = "done"
        /\ ret'.ok
        /\ evaluated' = evaluated
        /\ fetched' = fetched

\* page 0 has 5 hits and the first 4 were dedup skips
C2_FourSeen ==
    /\ fetched = <<0>>
    /\ pages_content = 5
    /\ processed_count = 4
    /\ evaluated = 4

C2_Example ==
    /\ (pc = "process" /\ C2_FourSeen) => (index = 4 /\ next_count = 0)
    /\ (pc \in {"exit", "done"} /\ C2_FourSeen) =>
          (last.kind = "abort" /\ index = 4)
    /\ (pages_content = 5 /\ last.kind = "abort" /\ fetched = <<0>>) =>
          evaluated = 4

\* C2: when next_count = 0 and processed_count > 3 hold before a hit is
\* evaluated, process_pages returns False: neither that hit nor a later one
\* is evaluated and no further page is fetched.  With a page of 5 hits whose
\* first 4 are dedup skips, exactly 4 hits are evaluated.
C2_EarlyAbort ==
    [](C2_Example) /\ [][C2_AbortStep]_vars /\ [][C2_AfterAbort]_vars

\* the rule was aborted before hit 5 of a 5-hit first page
C2_Witness ==
    /\ pc = "done"
    /\ ret.ok
    /\ last.kind = "abort"
    /\ fetched = <<0>>
    /\ pages_content = 5
    /\ evaluated = 4

\* C6: search() attempts exactly page 0 when total < 50 and otherwise pages
\* 0,1,2,3 in ascending order, never a page index >= 4 and never a page
\* twice; fewer pages are attempted only after an early abort or a
\* GithubException of get_page.
C6_PageBudget ==
    /\ \A i \in 1..Len(fetched) : fetched[i] = i - 1
    /\ Len(fetched) <= 4
    /\ (InLoop /\ total < 50) => fetched = <<0>>
    /\ (pc = "done" /\ ret.ok /\ last.kind # "abort" /\ total >= 50) =>
          fetched = <<0, 1, 2, 3>>
    /\ (pc = "done" /\ ~ret.ok /\ InLoop) =>
          LastOf(fetch_outcome) = "GithubException"

\* all four pages of a large result were attempted
C6_Witness ==
    /\ pc = "done"
    /\ ret.ok
    /\ total = 50
    /\ fetched = <<0, 1, 2, 3>>
    /\ last.kind # "abort"
    /\ evaluated = MaxHits

\* C7: Process(result, rule).process() is invoked exactly once for every
\* page get_page returned, with that page's result map, before the next
\* page is fetched.
C7_EveryFetchedPage ==
    /\ NoRepeat(reported)
    /\ \A i \in 1..Len(fetched) :
          fetch_outcome[i] = "ok" =>
              \/ fetched[i] \in SeqRange(reported)
              \/ fetched[i] = page /\ pc = "process"

\* the keys a page can write
PageKeys(p, n) == {p * 50 + i : i \in 0..(n - 1)}

C7_Reported ==
    /\ NoRepeat(reported)
    /\ \A i \in 1..Len(fetched) :
          fetch_outcome[i] = "ok" =>
              \/ fetched[i] \in SeqRange(reported)
              \/ fetched[i] = page /\ pc = "process"
              \/ fetched[i] = page /\ pc \in {"exit", "done"}
                    /\ last.kind = "abort"
    /\ \A i \in 1..Len(fetched) :
          fetched[i] \in SeqRange(reported) => fetch_outcome[i] = "ok"
    /\ reported # <<>> =>
          DOMAIN report_arg \subseteq PageKeys(LastOf(reported), MaxPageLen + 1)

C7_ReportStep ==
    /\ reported' # reported =>
          /\ pc = "process"
          /\ index = pages_content
          /\ reported' = Append(reported, page)
          /\ report_arg' = result
          /\ fetched' = fetched
    /\ (pc = "process" /\ pc' # "process") =>
          \/ pc' = "exit" /\ next_count = 0 /\ processed_count > 3
          \/ reported' = Append(reported, page)

\* C7 as amended: Process(result, rule).process() is invoked exactly once,
\* with that page's result map and before the next page is fetched, for
\* every page returned by get_page on which process_pages returned True; the
\* page on which the early abort fires is not reported.
C7_ReportedUnlessAborted == [](C7_Reported) /\ [][C7_ReportStep]_vars

\* two pages were reported, the last with a confirmed result
C7_Witness ==
    /\ Len(reported) = 2
    /\ DOMAIN report_arg # {}
    /\ pc = "fetch"

C8_TimeoutStep ==
    (Len(fetch_outcome') > Len(fetch_outcome)
        /\ LastOf(fetch_outcome') = "timeout") =>
        /\ evaluated' = evaluated
        /\ reported' = reported
        /\ processed_count' = processed_count
        /\ next_count' = next_count
        /\ page' = page + 1
        /\ pc' = "fetch"

C8_Continues ==
    /\ (pc = "fetch" /\ page < pages) => fetched' = Append(fetched, page)
    /\ (pc = "fetch" /\ page >= pages) => (pc' = "done" /\ ret'.ok)

C8_State ==
    /\ \A i \in 1..Len(fetched) :
          fetch_outcome[i] = "timeout" =>
              /\ fetched[i] \notin SeqRange(reported)
              /\ last.key \notin PageKeys(fetched[i], MaxPageLen + 1)
    /\ (pc = "done" /\ InLoop /\ LastOf(fetch_outcome) = "timeout") =>
          (ret.ok /\ ret.rule = rule_object /\ ret.info = 0)
    /\ (pc = "done" /\ InLoop /\ ~ret.ok) =>
          LastOf(fetch_outcome) = "GithubException"

\* C8: a socket.timeout of get_page(p) skips only page p: no hit of p is
\* evaluated, nothing is reported for p, the counters are unchanged, page
\* p + 1 is fetched next if it is within the budget, and search() still
\* returns (True, rule, summary).
C8_TimeoutSkipsPage ==
    [](C8_State) /\ [][C8_TimeoutStep]_vars /\ [][C8_Continues]_vars

\* page 1 timed out, page 2 was processed, the rule ended in success
C8_Witness ==
    /\ pc = "done"
    /\ ret.ok
    /\ Len(fetch_outcome) = 4
    /\ fetch_outcome[2] = "timeout"
    /\ fetch_outcome[3] = "ok"
    /\ 2 \in SeqRange(reported)
    /\ 1 \notin SeqRange(reported)

\* C9: a timeout or a GithubException while issuing the search or reading
\* the total count makes search() return (False, rule, diagnostic) with no
\* page fetched, no hit evaluated and no report; a GithubException of
\* get_page makes it return (False, rule, diagnostic) with no later page
\* fetched and the earlier reports kept.
C9_FailureReturned ==
    /\ pc \notin {"start", "count", "fetch", "process", "exit"} => pc = "done"
    /\ (pc = "done" /\ ~InLoop) =>
          /\ ~ret.ok
          /\ ret.rule = rule_object
          /\ evaluated = 0
          /\ reported = <<>>
    /\ (InLoop /\ LastOf(fetch_outcome) = "GithubException") =>
          /\ pc = "done"
          /\ ~ret.ok
          /\ ret.rule = rule_object
          /\ Len(reported) <= Len(fetched) - 1

C10_State ==
    InLoop =>
        /\ DOMAIN result \cap DOMAIN exclude_result = {}
        /\ next_count = added
        /\ next_count <= matched
        /\ matched <= evaluated

C10_Step ==
    HitEvaluated =>
        LET k == last'.key
            kind == last'.kind
            wroteResult == k \notin DOMAIN result /\ k \in DOMAIN result'
            wroteExclude ==
                k \notin DOMAIN exclude_result /\ k \in DOMAIN exclude_result'
        IN  /\ kind \in {"dedup", "repo_excluded", "decode_failed",
                         "no_match", "confirmed", "to_review"}
            /\ kind = "confirmed" <=> wroteResult
            /\ kind = "to_review" <=> wroteExclude
            /\ kind = "dedup" <=> processed_count' = processed_count + 1
            /\ ~wroteResult => result' = result
            /\ ~wroteExclude => exclude_result' = exclude_result
            /\ next_count' = next_count
                   + (IF wroteResult THEN 1 ELSE 0)
                   + (IF wroteExclude THEN 1 ELSE 0)

\* C10: the key sets of result and exclude_result are disjoint; every
\* evaluated hit ends in exactly one of dedup skip, repository-exclude skip,
\* decode skip, no-match skip, entry in result, entry in exclude_result;
\* next_count is the number of entries added since the rule started and at
\* most the number of evaluated hits with non-empty match fragments.
C10_Outcomes == [](C10_State) /\ [][C10_Step]_vars

\* a dedup skip, a no-match skip and a to-review entry on the second page
C10_Witness ==
    /\ pc = "process"
    /\ page = 1
    /\ DOMAIN result = {}
    /\ DOMAIN exclude_result = {per_page + 1}
    /\ next_count = 1
    /\ processed_count = 1
    /\ matched = 1
    /\ evaluated = 3

(***************************************************************************)
(* C11: a hit skipped by the repository-path exclusion changes neither     *)
(* counter nor either result map; a decode failure and a hit without a     *)
(* match leave processed_count alone as well, so processed_count is the    *)
(* number of dedup skips since the rule started, and the early abort fires *)
(* only in a rule that had more than AbortThreshold dedup skips.           *)
(***************************************************************************)
C11_Step ==
    HitEvaluated =>
        /\ last'.kind = "repo_excluded" =>
               UNCHANGED <<processed_count, next_count, result,
                           exclude_result>>
        /\ last'.kind \in {"repo_excluded", "decode_failed", "no_match"} =>
               processed_count' = processed_count
        /\ processed_count' # processed_count <=> last'.kind = "dedup"

C11_State ==
    /\ pc # "start" => processed_count = dedups
    /\ (pc = "exit" \/ last.kind = "abort") => dedups > AbortThreshold

C12_Step ==
    (HitEvaluated /\ ~last'.sha_ok) =>
        /\ last'.sha = ""
        /\ last'.kind # "dedup"
        /\ "exclude_repository" \in last'.calls
        /\ processed_count' = processed_count

C12_NeverDedup == [][C12_Step]_vars

(***************************************************************************)
(* C13: the hash list is loaded once, by search(), and no later step       *)
(* writes it; a hit is dedup-skipped exactly when its identity is in the   *)
(* loaded list, so a hit with the sha of an entry stored earlier in the    *)
(* same rule is not skipped on that account.                               *)
(***************************************************************************)
C13_Step ==
    /\ pc # "count" => hash_list' = hash_list
    /\ HitEvaluated =>
           (last'.kind = "dedup" <=> last'.sha \in hash_list)

\* the hashes of the entries currently in the two maps
StoredHashes ==
    {result[k].hash : k \in DOMAIN result}
        \cup {exclude_result[k].hash : k \in DOMAIN exclude_result}

C13_State ==
    (InLoop /\ last.kind = "dedup") => last.sha \in hash_list

C13_HashListReadOnly == [](C13_State) /\ [][C13_Step]_vars

\* an entry with sha "b" is in a map and a later hit of the page with the
\* same sha went through the loop body without being dedup-skipped
C13_Witness ==
    /\ pc = "process"
    /\ last.sha_ok
    /\ last.sha \in StoredHashes
    /\ last.key \notin DOMAIN result \cup DOMAIN exclude_result
    /\ \E k \in DOMAIN result \cup DOMAIN exclude_result : k < last.key
    /\ last.kind = "no_match"

(***************************************************************************)
(* C14: the code field of every entry of result and of exclude_result is   *)
(* the full decoded text of its hit, whatever the text holds.              *)
(***************************************************************************)
EntryAt(k) == IF k \in DOMAIN result THEN result[k] ELSE exclude_result[k]

C14_FullText ==
    (InLoop /\ last.kind \in {"confirmed", "to_review"}) =>
        EntryAt(last.key).code = last.content

(***************************************************************************)
(* C15 as stated: the early abort fires only after at least one hit of the *)
(* current page has been evaluated; process_pages never returns False      *)
(* before evaluating the first hit of the page it was given.               *)
(***************************************************************************)
C15_AfterFirstHit ==
    (InLoop /\ last.kind = "abort") => index >= 1

(***************************************************************************)
(* C15: the early abort fires in front of a hit of a non-empty page, the   *)
(* first hit included, and only when more than AbortThreshold hits of the  *)
(* rule were evaluated before, on this page or on earlier ones, none of    *)
(* them stored.                                                            *)
(***************************************************************************)
C15_AbortStep ==
    (pc = "process" /\ pc' = "exit") =>
        /\ index < pages_content
        /\ index' = index
        /\ evaluated' = evaluated
        /\ evaluated > AbortThreshold
        /\ next_count = 0
        /\ processed_count > AbortThreshold

C15_State ==
    (InLoop /\ last.kind = "abort") =>
        /\ index < pages_content
        /\ last.key = CurrentI(page, index)
        /\ evaluated >= processed_count
        /\ processed_count > AbortThreshold

C15_AbortBeforeAnyHit == [](C15_State) /\ [][C15_AbortStep]_vars

\* the abort fired in front of the first hit of the second page
C15_Witness ==
    /\ InLoop
    /\ last.kind = "abort"
    /\ page = 1
    /\ index = 0
    /\ evaluated = AbortThreshold + 1

(***************************************************************************)
(* C18: whenever the early abort fires, result and exclude_result of the   *)
(* current page are both empty; within a rule the maps hold an entry only  *)
(* when next_count > 0.                                                    *)
(***************************************************************************)
C18_AbortOnEmptyMaps ==
    InLoop =>
        /\ (DOMAIN result # {} \/ DOMAIN exclude_result # {}) => next_count > 0
        /\ (pc = "exit" \/ last.kind = "abort") =>
               (DOMAIN result = {} /\ DOMAIN exclude_result = {})

\* the abort fired on the second page, after hits of both pages were evaluated
C18_Witness ==
    /\ pc = "exit"
    /\ last.kind = "abort"
    /\ page = 1
    /\ index = 1
    /\ result = EmptyMap
    /\ exclude_result = EmptyMap

(***************************************************************************)
(* C19: on success the third element search() returns is the number of     *)
(* confirmed results of the last page attempted: 0 when that page timed    *)
(* out or the rule aborted on it, whatever the earlier pages stored.       *)
(***************************************************************************)
C19_LastPageCount ==
    (pc = "done" /\ InLoop /\ ret.ok) =>
        /\ ret.info = Cardinality(DOMAIN result)
        /\ DOMAIN result \subseteq PageKeys(LastOf(fetched), pages_content)
        /\ LastOf(fetch_outcome) = "timeout" => ret.info = 0
        /\ last.kind = "abort" => ret.info = 0
        /\ ret.info <= confirmed

\* a confirmed result was stored on an earlier page, the last page attempted
\* timed out, and search() returned 0
C19_Witness ==
    /\ pc = "done"
    /\ InLoop
    /\ ret.ok
    /\ LastOf(fetch_outcome) = "timeout"
    /\ confirmed = 1
    /\ ret.info = 0

(***************************************************************************)
(* C20: search() sets processed_count and next_count to 0 when it starts,  *)
(* no later step of the rule decreases either, and once next_count > 0 the *)
(* early abort does not fire for the rest of the rule.                     *)
(***************************************************************************)
C20_Step ==
    /\ pc = "start" => (processed_count' = 0 /\ next_count' = 0)
    /\ pc # "start" =>
           /\ processed_count' >= processed_count
           /\ next_count' >= next_count
           /\ processed_count' <= processed_count + 1
           /\ next_count' <= next_count + 1
           /\ next_count > 0 => (pc' # "exit" /\ last'.kind # "abort")

C20_State ==
    (pc # "start" /\ next_count > 0) => (pc # "exit" /\ last.kind # "abort")

Cuts(s) == {0, Len(s) + 1} \cup {i \in 1..Len(s) : s[i] = ","}

\* the text between the cut c and the next cut of s
PieceAfter(s, c) ==
    LET nxt == CHOOSE d \in Cuts(s) :
                   d > c /\ \A e \in Cuts(s) : e > c => d <= e
    IN  SubSeq(s, c + 1, nxt - 1)

\* s without its leading and trailing whitespace, in lower case
Trimmed(s) ==
    LET keep == {i \in 1..Len(s) : s[i] \notin Whitespace}
    IN  IF keep = {} THEN <<>>
        ELSE LET lo == CHOOSE i \in keep : \A j \in keep : i <= j
                 hi == CHOOSE i \in keep : \A j \in keep : i >= j
             IN  [i \in 1..(hi - lo + 1) |-> LowerChar(s[lo + i - 1])]

\* "extension:<ext> " for every comma-separated piece of s, in order
RECURSIVE TermsFrom(_, _)
TermsFrom(s, c) ==
    IF c > Len(s) THEN <<>>
    ELSE <<"e", "x", "t", "e", "n", "s", "i", "o", "n", ":">>
             \o Trimmed(PieceAfter(s, c)) \o <<" ">>
             \o TermsFrom(s, c + Len(PieceAfter(s, c)) + 1)

YmlJson == <<"y", "m", "l", ",", " ", "j", "s", "o", "n">>
SecretYmlJson ==
    <<"s", "e", "c", "r", "e", "t", " ",
      "e", "x", "t", "e", "n", "s", "i", "o", "n", ":", "y", "m", "l", " ",
      "e", "x", "t", "e", "n", "s", "i", "o", "n", ":",
      "j", "s", "o", "n", " ">>

(***************************************************************************)
(* C16: the query handed to the code search is the rule's keyword, one     *)
(* space, and then "extension:<ext> " for each comma-separated extension   *)
(* in order, <ext> trimmed and lower-cased; "secret" with "yml, json"      *)
(* gives "secret extension:yml extension:json ", and a rule without        *)
(* extension gives the keyword followed by one space.                      *)
(***************************************************************************)
C16_Query ==
    q_pc = "done" =>
        /\ q_has_ext => q_query = q_keyword \o <<" ">> \o TermsFrom(q_ext, 0)
        /\ ~q_has_ext => q_query = q_keyword \o <<" ">>
        /\ (q_has_ext /\ q_keyword = Secret /\ q_ext = YmlJson) =>
               q_query = SecretYmlJson

C16_Witness ==
    /\ q_pc = "done"
    /\ q_has_ext
    /\ q_keyword = Secret
    /\ q_ext = YmlJson
    /\ q_query = SecretYmlJson

(***************************************************************************)
(* Properties of _mail()                                                   *)
(***************************************************************************)
\* the address the loop takes next, as _mail() compares and reports it
NextMailOf(k) == Trimmed(m_multi[k])

\* the host of the address is a dotted quad that IPy classifies as private
PrivateIpHost(mail) ==
    IsIp(HostOf(mail)) /\ IpType(HostOf(mail)) = "PRIVATE"

PublicMail(mail) == HostOf(mail) \in public_mail_services

ProbesFor(mail) == {i \in 1..Len(m_probes) : m_probes[i].mail = mail}

(***************************************************************************)
(* C17: in mail mode an address whose host is a dotted-quad IP classified  *)
(* as private causes no outbound HTTP probe and is reported as             *)
(* "<address> http://<host> <Inner IP>"; every other address that is not   *)
(* of a public mail service causes exactly one probe.                      *)
(***************************************************************************)
C17_Step ==
    (m_pc = "loop" /\ m_i' = m_i + 1) =>
        LET mail == NextMailOf(m_i + 1)
            emitted == Len(m_match') = Len(m_match) + 1
        IN  /\ ~emitted => (m_match' = m_match /\ m_probes' = m_probes)
            /\ (~PublicMail(mail) /\ ~InSeq(mail, m_mails)) => emitted
            /\ (emitted /\ PrivateIpHost(mail)) =>
                   /\ m_probes' = m_probes
                   /\ LastOf(m_match') =
                          mail \o <<" ">>
                              \o <<"h", "t", "t", "p", ":", "/", "/">>
                              \o HostOf(mail) \o <<" ">>
                              \o <<"<", "I", "n", "n", "e", "r", " ", "I", "P",
                                    ">">>
            /\ (emitted /\ ~PrivateIpHost(mail)) =>
                   /\ Len(m_probes') = Len(m_probes) + 1
                   /\ LastOf(m_probes').mail = mail
                   /\ ProbesFor(mail) = {}

C17_State ==
    /\ \A i \in 1..Len(m_probes) : ~PrivateIpHost(m_probes[i].mail)
    /\ \A k \in 1..m_i :
          LET mail == NextMailOf(k)
          IN  Cardinality(ProbesFor(mail)) =
                  IF PublicMail(mail) \/ PrivateIpHost(mail) THEN 0 ELSE 1

C17_InnerIpNotProbed == [](C17_State) /\ [][C17_Step]_vars

UpperInner == <<"A", "@", "1", "0", ".", "0", ".", "0", ".", "1">>
InnerFragment ==
    <<"a", "@", "1", "0", ".", "0", ".", "0", ".", "1", " ",
      "h", "t", "t", "p", ":", "/", "/", "1", "0", ".", "0", ".", "0", ".", "1",
      " ", "<", "I", "n", "n", "e", "r", " ", "I", "P", ">">>

\* a private address in upper case, a domain address and the private address
\* again: one probe, and the private address reported once, as an inner IP
C17_Witness ==
    /\ m_pc = "done"
    /\ m_multi = <<UpperInner, <<"c", "@", "x", ".", "i", "o">>, UpperInner>>
    /\ Len(m_probes) = 1
    /\ Len(m_match) = 2
    /\ m_match[1] = InnerFragment

====
